---- MODULE Spec2Model ----
(***************************************************************************)
(* State-machine model of the dashboard's client-side logic.               *)
(*                                                                         *)
(* Part 1: the useArena hook (src/hooks/use-leaderboard.ts, 112-275): its  *)
(* seven state fields, its two refs, the polling/WebSocket effect, the     *)
(* three background refreshes and the startArena/stopArena actions.        *)
(* The browser and the backend are the environment: live interval timers,  *)
(* open sockets, requests in flight, and the responses they get.           *)
(***************************************************************************)
EXTENDS Integers, Sequences, FiniteSets, TLC

VARIABLES
    status,           \* useState<string>("idle")
    agentStats,       \* useState([])   (a snapshot id; "empty" is [])
    timeSeriesData,   \* useState([])
    activeCustomers,  \* useState([])
    recentEvents,     \* useState([])   newest first
    isLoading,        \* useState(false)
    error,            \* useState(null)
    wsRef,            \* useRef(null): 0 is null, else a socket id
    pollingRef,       \* useRef(null): 0 is null, else an interval id
    mounted,          \* the component using the hook is mounted
    effStatus,        \* the status the polling effect last ran with
    timers,           \* browser: ids of intervals set and not cleared
    timerSeq,         \* browser: number of setInterval calls so far
    sockets,          \* browser: ids of sockets created and not closed
    socketSeq,        \* browser: number of sockets created so far
    wsAttempts,       \* number of createWebSocketConnection() calls so far
    lastOp,           \* the handler that ran last, and how it ended
    wsSeq,            \* number of event messages the sockets delivered
    inflight,         \* background GETs in flight, per kind
    calls,            \* startArena/stopArena invocations, in call order
    done,             \* writes of agentStats/timeSeriesData, as they completed
    swrData,          \* useLeaderboard: data of useSWR (defined or not, entries)
    sortKey,          \* useLeaderboard: the key of the last getSortedEntries call
    sorted,           \* useLeaderboard: what that call returned
    storage,          \* admin api: localStorage (admin_token, admin_user)
    adminReqs,        \* admin api: request() calls in flight (the token each sent)
    outcome,          \* admin api: how the last request() call settled
    month,            \* LeaderboardPage: useState("2026-01")
    agentType,        \* LeaderboardPage: useState("all")
    agents,           \* LeaderboardPage: useState([]) (whose response it holds)
    pageIsLoading,    \* LeaderboardPage: useState(true)
    pageError,        \* LeaderboardPage: useState(null)
    pageReqs,         \* LeaderboardPage: getLeaderboard calls in flight
    currentPage,      \* AdminQuestionsPage: useState(1)
    totalPages,       \* AdminQuestionsPage: useState(0)
    questions,        \* AdminQuestionsPage: useState([]) (number of questions)
    loading,          \* AdminQuestionsPage: useState(true)
    dimension,        \* AdminQuestionsPage: useState("all")
    qReqs,            \* AdminQuestionsPage: getQuestions calls in flight
    selectedIds,      \* RankingTable: useState(new Set())
    expandedId,       \* RankingTable: useState(null)
    compareMode       \* RankingTable: the compareMode prop

hookState == <<status, agentStats, timeSeriesData, activeCustomers,
               recentEvents, isLoading, error>>

arenaVars == <<status, agentStats, timeSeriesData, activeCustomers,
               recentEvents, isLoading, error, wsRef, pollingRef, mounted,
               effStatus, timers, timerSeq, sockets, socketSeq, wsAttempts,
               lastOp, wsSeq, inflight, calls>>

\* the leaderboard hook's part of the state
sortVars == <<swrData, sortKey, sorted>>

\* the arena hook's state without the label of the last handler
arenaRest == <<hookState, wsRef, pollingRef, mounted, effStatus, timers,
               timerSeq, sockets, socketSeq, wsAttempts, wsSeq, inflight,
               calls>>

adminVars == <<storage, adminReqs, outcome>>
pageVars == <<month, agentType, agents, pageIsLoading, pageError, pageReqs>>
questionsVars == <<currentPage, totalPages, questions, loading, dimension,
                   qReqs>>
tableVars == <<selectedIds, expandedId, compareMode>>

\* the state of the other components
uiVars == <<adminVars, pageVars, questionsVars, tableVars>>

\* what the arena hook's handlers leave alone
aside == <<done, sortVars, uiVars>>

vars == <<arenaVars, done, sortVars, uiVars>>

(***************************************************************************)
(* Bounds of the model.                                                    *)
(***************************************************************************)
MaxArm      == 2   \* times the effect may arm the poll and the socket
MaxInFlight == 1   \* background GETs of one kind in flight at once
MaxWsEvents == 1   \* event messages in the general specification
MaxCalls    == 2   \* startArena/stopArena invocations
FeedExtra   == 4   \* event messages beyond the cap in the feed specification

(***************************************************************************)
(* Program constants.                                                      *)
(***************************************************************************)
FeedCap     == 50  \* .slice(0, 50)
EventsLimit == 20  \* apiClient.getArenaEvents(20)

Null == "null"
NoRef == 0

Statuses  == {"idle", "running", "completed"}
\* what a status response or a stats_update message carries
Snapshots == {[agent_stats |-> "a1", time_series |-> "t1"],
              [agent_stats |-> "a2", time_series |-> "t2"]}
CustomerLists == {"c1", "c2"}
Kinds     == {"status", "customers", "events"}

EventTypes == <<"customer_generated", "deal_closed", "compliance_violation",
                "customer_lost">>
StatusEventTypes == {"deal_closed", "compliance_violation", "customer_lost"}
MsgTypes == {"stats_update", "customer_generated", "deal_closed",
             "compliance_violation", "customer_lost", "heartbeat"}

\* err.message of the error a failed POST throws ("" is an empty message)
ErrMessages == {"", "API 500"}

Min(a, b) == IF a < b THEN a ELSE b

\* Array.prototype.slice(0, n)
Slice(s, n) == SubSeq(s, 1, Min(Len(s), n))

\* faulty variant of Prepend: the slice is forgotten
Prepend_NoSlice(data, prev) == <<data>> \o prev

\* faulty variant of Prepend: the new event is put at the end
Prepend_AtEnd(data, prev) == Slice(prev \o <<data>>, FeedCap)

\* [data, ...prev].slice(0, 50)
Prepend(data, prev) == Slice(<<data>> \o prev, FeedCap)

\* the events of a GET /arena/events?limit=20 response holding n events
FetchedEvents(n) == [i \in 1..n |-> [type |-> EventTypes[(i % 4) + 1],
                                     src |-> "rest", id |-> i]]

\* the k-th event message a socket delivers, of type ty
WsEvent(ty, k) == [type |-> ty, src |-> "ws", id |-> k]

Issue(f, ks) == [k \in Kinds |-> IF k \in ks THEN f[k] + 1 ELSE f[k]]

Settle(f, kind) == [f EXCEPT ![kind] = @ - 1]

(***************************************************************************)
(* useLeaderboard: the SWR data and getSortedEntries.                      *)
(***************************************************************************)
MaxEntries == 3

\* `data` before the first response
NoData == [defined |-> FALSE, entries |-> <<>>]

Agent(id, k, r, t, c, o) ==
    [agent_id |-> id, knowledge_score |-> k, reasoning_score |-> r,
     tools_score |-> t, compliance_score |-> c, overall_score |-> o]

\* the leaderboard entries a response is made of; scores tie within every
\* dimension
Agents == {Agent("A", 90, 70, 80, 60, 75), Agent("B", 90, 85, 60, 60, 80),
           Agent("C", 70, 85, 95, 90, 80), Agent("D", 95, 60, 95, 75, 70)}

EntryLists(n) == UNION {[1..k -> Agents] : k \in 0..n}

SortKeys == {"knowledge", "claims", "actuarial", "compliance", "tools",
             "overall", "unknown"}

\* the switch: the score a sort key compares
ScoreOf(e, key) ==
    CASE key = "knowledge"  -> e.knowledge_score
      [] key = "claims"     -> e.reasoning_score
      [] key = "actuarial"  -> e.tools_score
      [] key = "compliance" -> e.compliance_score
      [] key = "tools"      -> e.tools_score
      [] OTHER              -> e.overall_score

\* the comparator (a, b) => b.score - a.score
Compare(a, b, key) == ScoreOf(b, key) - ScoreOf(a, key)

\* faulty variant of Insert: an entry goes before the entries it ties with
RECURSIVE Insert_BeforeEqual(_, _, _)
Insert_BeforeEqual(x, s, key) ==
    IF s = <<>> THEN <<x>>
    ELSE IF Compare(Head(s), x, key) < 0
            THEN <<Head(s)>> \o Insert_BeforeEqual(x, Tail(s), key)
            ELSE <<x>> \o s

\* x put into the sorted s: behind every entry the comparator does not put
\* after it
RECURSIVE Insert(_, _, _)
Insert(x, s, key) ==
    IF s = <<>> THEN <<x>>
    ELSE IF Compare(Head(s), x, key) <= 0
            THEN <<Head(s)>> \o Insert(x, Tail(s), key)
            ELSE <<x>> \o s

\* Array.prototype.sort with the comparator: a stable sort
RECURSIVE SortBy(_, _, _)
SortBy(s, n, key) ==
    IF n = 0 THEN <<>>
    ELSE Insert(s[n], SortBy(s, n - 1, key), key)

\* a response of the leaderboard endpoint arrives (first load or refresh);
\* the component renders again and the earlier result is gone
SwrData ==
    /\ \E es \in EntryLists(MaxEntries) :
          swrData' = [defined |-> TRUE, entries |-> es]
    /\ sortKey' = "none"
    /\ sorted' = <<>>
    /\ lastOp' = "swr data"

\* faulty variant of GetSortedEntries: data.entries itself is sorted
GetSortedEntries_InPlace(key) ==
    /\ sortKey' = key
    /\ sorted' = IF ~swrData.defined THEN <<>>
                 ELSE SortBy(swrData.entries, Len(swrData.entries), key)
    /\ swrData' = [swrData EXCEPT !.entries = sorted']
    /\ lastOp' = "getSortedEntries"

GetSortedEntries(key) ==
    /\ sortKey' = key
    /\ sorted' = IF ~swrData.defined THEN <<>>
                 ELSE SortBy(swrData.entries, Len(swrData.entries), key)
    /\ UNCHANGED swrData
    /\ lastOp' = "getSortedEntries"

\* localStorage keys ADMIN_TOKEN_KEY, ADMIN_USER_KEY
StorageKeys == {"admin_token", "admin_user"}

Init ==
    /\ status = "idle"
    /\ agentStats = "empty"
    /\ timeSeriesData = "empty"
    /\ activeCustomers = "empty"
    /\ recentEvents = <<>>
    /\ isLoading = FALSE
    /\ error = Null
    /\ wsRef = NoRef
    /\ pollingRef = NoRef
    /\ mounted = TRUE
    /\ effStatus = "idle"
    /\ timers = {}
    /\ timerSeq = 0
    /\ sockets = {}
    /\ socketSeq = 0
    /\ wsAttempts = 0
    /\ lastOp = "mount"
    /\ wsSeq = 0
    /\ inflight = [k \in Kinds |-> IF k = "status" THEN 1 ELSE 0]
    /\ calls = <<>>
    /\ done = <<>>
    /\ swrData = NoData
    /\ sortKey = "none"
    /\ sorted = <<>>
    /\ storage = [k \in StorageKeys |-> Null]
    /\ adminReqs = <<>>
    /\ outcome = [status |-> 0, result |-> "none"]
    /\ month = "2026-01"
    /\ agentType = "all"
    /\ agents = <<>>
    /\ pageIsLoading = TRUE
    /\ pageError = Null
    /\ pageReqs = <<[month |-> "2026-01", agentType |-> "all"]>>
    /\ currentPage = 1
    /\ totalPages = 0
    /\ questions = 0
    /\ loading = TRUE
    /\ dimension = "all"
    /\ qReqs = 1
    /\ selectedIds = {}
    /\ expandedId = Null
    /\ compareMode = FALSE

(***************************************************************************)
(* The polling/WebSocket effect, deps [status, ...]: React runs the        *)
(* previous run's cleanup and then the body, after a render in which       *)
(* status differs from the one the effect last saw.  The effect is a step  *)
(* of its own: a timer or socket callback may run between the state update *)
(* and the effect, and two updates may be rendered together.               *)
(***************************************************************************)
\* clearInterval(id) / ws.close(): idempotent browser operations
ClearInterval(ts, ref) == ts \ {ref}
CloseSocket(ss, ref) == ss \ {ref}

\* the cleanup function: clears and closes, leaves the refs as they are
CleanupTimers == IF pollingRef # NoRef THEN ClearInterval(timers, pollingRef) ELSE timers
CleanupSockets == IF wsRef # NoRef THEN CloseSocket(sockets, wsRef) ELSE sockets

\* faulty variant of EffectRunning: setInterval is inside the try, after the
\* socket's creation
EffectRunning_ArmInsideTry(wsThrows) ==
    /\ status = "running"
    /\ timerSeq < MaxArm
    /\ wsAttempts' = wsAttempts + 1
    /\ IF wsThrows
          THEN /\ timers' = CleanupTimers
               /\ sockets' = CleanupSockets
               /\ UNCHANGED <<pollingRef, timerSeq, wsRef, socketSeq>>
          ELSE /\ timerSeq' = timerSeq + 1
               /\ pollingRef' = timerSeq + 1
               /\ timers' = CleanupTimers \cup {timerSeq + 1}
               /\ socketSeq' = socketSeq + 1
               /\ wsRef' = socketSeq + 1
               /\ sockets' = CleanupSockets \cup {socketSeq + 1}

EffectRunning(wsThrows) ==
    /\ status = "running"
    /\ timerSeq < MaxArm
    /\ timerSeq' = timerSeq + 1
    /\ pollingRef' = timerSeq + 1
    /\ timers' = CleanupTimers \cup {timerSeq + 1}
    /\ wsAttempts' = wsAttempts + 1
    /\ IF wsThrows
          THEN /\ sockets' = CleanupSockets
               /\ UNCHANGED <<wsRef, socketSeq>>
          ELSE /\ socketSeq' = socketSeq + 1
               /\ wsRef' = socketSeq + 1
               /\ sockets' = CleanupSockets \cup {socketSeq + 1}

\* faulty variant of EffectNotRunning: no cleanup function, and the else
\* branch only forgets the refs
EffectNotRunning_DropRefs ==
    /\ status # "running"
    /\ pollingRef' = NoRef
    /\ wsRef' = NoRef
    /\ UNCHANGED <<timers, sockets, timerSeq, socketSeq, wsAttempts>>

\* faulty variant of EffectNotRunning: clears and closes, but keeps the refs
EffectNotRunning_KeepRefs ==
    /\ status # "running"
    /\ timers' = CleanupTimers
    /\ sockets' = CleanupSockets
    /\ UNCHANGED <<pollingRef, wsRef, timerSeq, socketSeq, wsAttempts>>

EffectNotRunning ==
    /\ status # "running"
    /\ timers' = IF pollingRef # NoRef
                    THEN ClearInterval(CleanupTimers, pollingRef)
                    ELSE CleanupTimers
    /\ pollingRef' = NoRef
    /\ sockets' = IF wsRef # NoRef
                     THEN CloseSocket(CleanupSockets, wsRef)
                     ELSE CleanupSockets
    /\ wsRef' = NoRef
    /\ UNCHANGED <<timerSeq, socketSeq, wsAttempts>>

RunEffect ==
    /\ mounted
    /\ status # effStatus
    /\ effStatus' = status
    /\ \/ \E wsThrows \in BOOLEAN : EffectRunning(wsThrows)
       \/ EffectNotRunning
    /\ lastOp' = "effect"
    /\ UNCHANGED <<hookState, mounted, wsSeq, inflight, calls>>

\* faulty variant of Unmount: the cleanup forgets the socket
Unmount_LeakSocket ==
    /\ mounted
    /\ mounted' = FALSE
    /\ timers' = CleanupTimers
    /\ lastOp' = "unmount"
    /\ UNCHANGED <<hookState, wsRef, pollingRef, effStatus, timerSeq, sockets,
                   socketSeq, wsAttempts, wsSeq, inflight, calls>>

\* unmount: React runs the cleanup of the last effect run, and nothing else
Unmount ==
    /\ mounted
    /\ mounted' = FALSE
    /\ timers' = CleanupTimers
    /\ sockets' = CleanupSockets
    /\ lastOp' = "unmount"
    /\ UNCHANGED <<hookState, wsRef, pollingRef, effStatus, timerSeq, socketSeq,
                   wsAttempts, wsSeq, inflight, calls>>

(***************************************************************************)
(* The interval callback: any live interval may fire.                      *)
(***************************************************************************)
\* faulty variant of PollTick: the callback refreshes the status only
PollTick_StatusOnly ==
    /\ timers # {}
    /\ \A k \in Kinds : inflight[k] < MaxInFlight
    /\ lastOp' = "tick"
    /\ inflight' = Issue(inflight, {"status"})
    /\ UNCHANGED <<hookState, wsRef, pollingRef, mounted, effStatus, timers,
                   timerSeq, sockets, socketSeq, wsAttempts, wsSeq, calls>>

PollTick ==
    /\ timers # {}
    /\ \A k \in Kinds : inflight[k] < MaxInFlight
    /\ lastOp' = "tick"
    /\ inflight' = Issue(inflight, {"status", "customers", "events"})
    /\ UNCHANGED <<hookState, wsRef, pollingRef, mounted, effStatus, timers,
                   timerSeq, sockets, socketSeq, wsAttempts, wsSeq, calls>>

(***************************************************************************)
(* The three background refreshes.  A call adds a GET to inflight; its     *)
(* response is chosen when it arrives.  The setters run whether or not the *)
(* component is still mounted: the code holds no mounted flag and aborts   *)
(* no request.                                                             *)
(***************************************************************************)
\* faulty variant of FetchStatusApply: a response does not replace a time
\* series already on display
FetchStatusApply_KeepSeries(s, p) ==
    /\ status' = s
    /\ agentStats' = p.agent_stats
    /\ timeSeriesData' = IF timeSeriesData = "empty" THEN p.time_series
                                                     ELSE timeSeriesData

\* the try block of fetchStatus, for a response {status: s, agent_stats,
\* time_series} whose snapshot is p
FetchStatusApply(s, p) ==
    /\ status' = s
    /\ agentStats' = p.agent_stats
    /\ timeSeriesData' = p.time_series

\* the server reports "running" only while the model may still arm the poll
StatusAllowed(s) == s = "running" => timerSeq < MaxArm

FetchStatusOk(ss, ps) ==
    /\ inflight["status"] > 0
    /\ \E s \in ss, p \in ps :
          /\ StatusAllowed(s)
          /\ FetchStatusApply(s, p)
    /\ inflight' = Settle(inflight, "status")
    /\ lastOp' = "fetchStatus ok"
    /\ UNCHANGED <<activeCustomers, recentEvents, isLoading, error, wsRef,
                   pollingRef, mounted, effStatus, timers, timerSeq, sockets,
                   socketSeq, wsAttempts, wsSeq, calls>>

FetchCustomersOk(ps) ==
    /\ inflight["customers"] > 0
    /\ \E p \in ps : activeCustomers' = p
    /\ inflight' = Settle(inflight, "customers")
    /\ lastOp' = "fetchCustomers ok"
    /\ UNCHANGED <<status, agentStats, timeSeriesData, recentEvents, isLoading,
                   error, wsRef, pollingRef, mounted, effStatus, timers,
                   timerSeq, sockets, socketSeq, wsAttempts, wsSeq, calls>>

\* faulty variant of FetchEventsOk: the response is merged into the list
FetchEventsOk_Merge(ns) ==
    /\ inflight["events"] > 0
    /\ \E n \in ns : recentEvents' = Slice(FetchedEvents(n) \o recentEvents, FeedCap)
    /\ inflight' = Settle(inflight, "events")
    /\ lastOp' = "fetchEvents ok"
    /\ UNCHANGED <<status, agentStats, timeSeriesData, activeCustomers,
                   isLoading, error, wsRef, pollingRef, mounted, effStatus,
                   timers, timerSeq, sockets, socketSeq, wsAttempts, wsSeq,
                   calls>>

FetchEventsOk(ns) ==
    /\ inflight["events"] > 0
    /\ \E n \in ns : recentEvents' = FetchedEvents(n)
    /\ inflight' = Settle(inflight, "events")
    /\ lastOp' = "fetchEvents ok"
    /\ UNCHANGED <<status, agentStats, timeSeriesData, activeCustomers,
                   isLoading, error, wsRef, pollingRef, mounted, effStatus,
                   timers, timerSeq, sockets, socketSeq, wsAttempts, wsSeq,
                   calls>>

\* faulty variant of FetchFailed: the catch block clears the stale data
FetchFailed_Reset(kind) ==
    /\ inflight[kind] > 0
    /\ inflight' = Settle(inflight, kind)
    /\ lastOp' = "failed " \o kind
    /\ status' = "idle"
    /\ agentStats' = "empty"
    /\ timeSeriesData' = "empty"
    /\ UNCHANGED <<activeCustomers, recentEvents, isLoading, error, wsRef,
                   pollingRef, mounted, effStatus, timers, timerSeq, sockets,
                   socketSeq, wsAttempts, wsSeq, calls>>

\* faulty variant of FetchFailed: the catch block tries again at once
FetchFailed_Retry(kind) ==
    /\ inflight[kind] > 0
    /\ inflight' = Issue(Settle(inflight, kind), {kind})
    /\ lastOp' = "failed " \o kind
    /\ UNCHANGED <<hookState, wsRef, pollingRef, mounted, effStatus, timers,
                   timerSeq, sockets, socketSeq, wsAttempts, wsSeq, calls>>

\* the catch block of the three: console.error, and nothing else
FetchFailed(kind) ==
    /\ inflight[kind] > 0
    /\ inflight' = Settle(inflight, kind)
    /\ lastOp' = "failed " \o kind
    /\ UNCHANGED <<hookState, wsRef, pollingRef, mounted, effStatus, timers,
                   timerSeq, sockets, socketSeq, wsAttempts, wsSeq, calls>>

(***************************************************************************)
(* ws.onmessage: an open socket delivers a message {type, data}.           *)
(***************************************************************************)
\* faulty variant of OnMessage: customer_generated refreshes the status
OnMessage_CustomerRefetchesStatus(ty, p) ==
    IF ty = "stats_update"
       THEN /\ agentStats' = p.agent_stats
            /\ timeSeriesData' = p.time_series
            /\ UNCHANGED <<recentEvents, wsSeq, inflight>>
       ELSE IF ty = "customer_generated"
       THEN /\ inflight' = Issue(inflight, {"status"})
            /\ recentEvents' = Prepend(WsEvent(ty, wsSeq + 1), recentEvents)
            /\ wsSeq' = wsSeq + 1
            /\ UNCHANGED <<agentStats, timeSeriesData>>
       ELSE IF ty \in StatusEventTypes
       THEN /\ inflight' = Issue(inflight, {"status"})
            /\ recentEvents' = Prepend(WsEvent(ty, wsSeq + 1), recentEvents)
            /\ wsSeq' = wsSeq + 1
            /\ UNCHANGED <<agentStats, timeSeriesData>>
       ELSE UNCHANGED <<agentStats, timeSeriesData, recentEvents, wsSeq,
                        inflight>>

\* faulty variant of OnMessage: a status event refreshes the customers too
OnMessage_EventRefetchesBoth(ty, p) ==
    IF ty = "stats_update"
       THEN /\ agentStats' = p.agent_stats
            /\ timeSeriesData' = p.time_series
            /\ UNCHANGED <<recentEvents, wsSeq, inflight>>
       ELSE IF ty = "customer_generated"
       THEN /\ inflight' = Issue(inflight, {"customers"})
            /\ recentEvents' = Prepend(WsEvent(ty, wsSeq + 1), recentEvents)
            /\ wsSeq' = wsSeq + 1
            /\ UNCHANGED <<agentStats, timeSeriesData>>
       ELSE IF ty \in StatusEventTypes
       THEN /\ inflight' = Issue(inflight, {"status", "customers"})
            /\ recentEvents' = Prepend(WsEvent(ty, wsSeq + 1), recentEvents)
            /\ wsSeq' = wsSeq + 1
            /\ UNCHANGED <<agentStats, timeSeriesData>>
       ELSE UNCHANGED <<agentStats, timeSeriesData, recentEvents, wsSeq,
                        inflight>>

\* faulty variant of OnMessage: stats_update keeps the old time series
OnMessage_StatsOnly(ty, p) ==
    IF ty = "stats_update"
       THEN /\ agentStats' = p.agent_stats
            /\ UNCHANGED <<timeSeriesData, recentEvents, wsSeq, inflight>>
       ELSE IF ty = "customer_generated"
       THEN /\ inflight' = Issue(inflight, {"customers"})
            /\ recentEvents' = Prepend(WsEvent(ty, wsSeq + 1), recentEvents)
            /\ wsSeq' = wsSeq + 1
            /\ UNCHANGED <<agentStats, timeSeriesData>>
       ELSE IF ty \in StatusEventTypes
       THEN /\ inflight' = Issue(inflight, {"status"})
            /\ recentEvents' = Prepend(WsEvent(ty, wsSeq + 1), recentEvents)
            /\ wsSeq' = wsSeq + 1
            /\ UNCHANGED <<agentStats, timeSeriesData>>
       ELSE UNCHANGED <<agentStats, timeSeriesData, recentEvents, wsSeq,
                        inflight>>

\* faulty variant of OnMessage: a message of any other type is put on the
\* feed
OnMessage_ElsePrepends(ty, p) ==
    IF ty = "stats_update"
       THEN /\ agentStats' = p.agent_stats
            /\ timeSeriesData' = p.time_series
            /\ UNCHANGED <<recentEvents, wsSeq, inflight>>
       ELSE IF ty = "customer_generated"
       THEN /\ inflight' = Issue(inflight, {"customers"})
            /\ recentEvents' = Prepend(WsEvent(ty, wsSeq + 1), recentEvents)
            /\ wsSeq' = wsSeq + 1
            /\ UNCHANGED <<agentStats, timeSeriesData>>
       ELSE IF ty \in StatusEventTypes
       THEN /\ inflight' = Issue(inflight, {"status"})
            /\ recentEvents' = Prepend(WsEvent(ty, wsSeq + 1), recentEvents)
            /\ wsSeq' = wsSeq + 1
            /\ UNCHANGED <<agentStats, timeSeriesData>>
       ELSE /\ recentEvents' = Prepend(WsEvent(ty, wsSeq + 1), recentEvents)
            /\ UNCHANGED <<agentStats, timeSeriesData, wsSeq, inflight>>

\* the handler's if / else-if chain for a message of type ty; an event
\* message is the k-th one delivered, k = wsSeq + 1
OnMessage(ty, p) ==
    IF ty = "stats_update"
       THEN /\ agentStats' = p.agent_stats
            /\ timeSeriesData' = p.time_series
            /\ UNCHANGED <<recentEvents, wsSeq, inflight>>
       ELSE IF ty = "customer_generated"
       THEN /\ inflight' = Issue(inflight, {"customers"})
            /\ recentEvents' = Prepend(WsEvent(ty, wsSeq + 1), recentEvents)
            /\ wsSeq' = wsSeq + 1
            /\ UNCHANGED <<agentStats, timeSeriesData>>
       ELSE IF ty \in StatusEventTypes
       THEN /\ inflight' = Issue(inflight, {"status"})
            /\ recentEvents' = Prepend(WsEvent(ty, wsSeq + 1), recentEvents)
            /\ wsSeq' = wsSeq + 1
            /\ UNCHANGED <<agentStats, timeSeriesData>>
       ELSE UNCHANGED <<agentStats, timeSeriesData, recentEvents, wsSeq,
                        inflight>>

\* the model's caps: an event message is delivered only while the event
\* counter and the in-flight counter of the refresh it starts have room
Deliverable(ty, cap) ==
    /\ ty = "customer_generated" => wsSeq < cap /\ inflight["customers"] < MaxInFlight
    /\ ty \in StatusEventTypes => wsSeq < cap /\ inflight["status"] < MaxInFlight

WsMessage(tys, ps, cap) ==
    /\ sockets # {}
    /\ \E ty \in tys, p \in ps :
          /\ Deliverable(ty, cap)
          /\ OnMessage(ty, p)
          /\ lastOp' = "ws " \o ty
    /\ UNCHANGED <<status, activeCustomers, isLoading, error, wsRef,
                   pollingRef, mounted, effStatus, timers, timerSeq, sockets,
                   socketSeq, wsAttempts, calls>>

(***************************************************************************)
(* startArena / stopArena.  A call is a record: its POST is in flight      *)
(* (pc "post"), then its own fetchStatus (pc "refetch"), then its promise  *)
(* is settled (pc "resolved" or "rejected").                               *)
(***************************************************************************)
\* postErr: the message of the error the POST threw; thrown: the message of
\* the error the call's promise rejected with; refetches: fetchStatus calls
\* the call made; refetch: how the last of them ended
NewCall(op) == [op |-> op, pc |-> "post", postErr |-> Null, thrown |-> Null,
                refetches |-> 0, refetch |-> "none"]

Settled(c) == calls[c].pc \in {"resolved", "rejected"}

\* err.message || fallback
ErrorText(m, fallback) == IF m = "" THEN fallback ELSE m

\* faulty variant of StartArena: a call made while another start is in
\* flight issues no POST of its own
StartArena_Dedup ==
    /\ mounted
    /\ Len(calls) < MaxCalls
    /\ isLoading' = TRUE
    /\ error' = Null
    /\ calls' = Append(calls,
                  IF \E c \in 1..Len(calls) :
                        calls[c].op = "start" /\ calls[c].pc \in {"post", "refetch"}
                     THEN [NewCall("start") EXCEPT !.pc = "resolved"]
                     ELSE NewCall("start"))
    /\ lastOp' = "startArena"
    /\ UNCHANGED <<status, agentStats, timeSeriesData, activeCustomers,
                   recentEvents, wsRef, pollingRef, mounted, effStatus,
                   timers, timerSeq, sockets, socketSeq, wsAttempts, wsSeq,
                   inflight>>

StartArena ==
    /\ mounted
    /\ Len(calls) < MaxCalls
    /\ isLoading' = TRUE
    /\ error' = Null
    /\ calls' = Append(calls, NewCall("start"))
    /\ lastOp' = "startArena"
    /\ UNCHANGED <<status, agentStats, timeSeriesData, activeCustomers,
                   recentEvents, wsRef, pollingRef, mounted, effStatus, timers,
                   timerSeq, sockets, socketSeq, wsAttempts, wsSeq, inflight>>

\* faulty variant of StopArena: the hook shows the arena as stopped at once
StopArena_SetsIdle ==
    /\ mounted
    /\ Len(calls) < MaxCalls
    /\ isLoading' = TRUE
    /\ status' = "idle"
    /\ calls' = Append(calls, NewCall("stop"))
    /\ lastOp' = "stopArena"
    /\ UNCHANGED <<agentStats, timeSeriesData, activeCustomers,
                   recentEvents, error, wsRef, pollingRef, mounted, effStatus,
                   timers, timerSeq, sockets, socketSeq, wsAttempts, wsSeq,
                   inflight>>

\* faulty variant of StopArena: nothing is sent when the arena is not running
StopArena_SkipWhenIdle ==
    /\ mounted
    /\ Len(calls) < MaxCalls
    /\ isLoading' = TRUE
    /\ calls' = Append(calls,
                  IF status = "running"
                     THEN NewCall("stop")
                     ELSE [NewCall("stop") EXCEPT !.pc = "resolved"])
    /\ lastOp' = "stopArena"
    /\ UNCHANGED <<status, agentStats, timeSeriesData, activeCustomers,
                   recentEvents, error, wsRef, pollingRef, mounted, effStatus,
                   timers, timerSeq, sockets, socketSeq, wsAttempts, wsSeq,
                   inflight>>

StopArena ==
    /\ mounted
    /\ Len(calls) < MaxCalls
    /\ isLoading' = TRUE
    /\ calls' = Append(calls, NewCall("stop"))
    /\ lastOp' = "stopArena"
    /\ UNCHANGED <<status, agentStats, timeSeriesData, activeCustomers,
                   recentEvents, error, wsRef, pollingRef, mounted, effStatus,
                   timers, timerSeq, sockets, socketSeq, wsAttempts, wsSeq,
                   inflight>>

\* faulty variant of PostOk: fetchStatus() is called but not awaited
PostOk_NoAwait(c) ==
    /\ calls[c].pc = "post"
    /\ inflight["status"] < MaxInFlight
    /\ inflight' = Issue(inflight, {"status"})
    /\ isLoading' = FALSE
    /\ calls' = [calls EXCEPT ![c].pc = "resolved", ![c].refetches = @ + 1,
                              ![c].refetch = "pending"]
    /\ lastOp' = "post ok"
    /\ UNCHANGED <<status, agentStats, timeSeriesData, activeCustomers,
                   recentEvents, error, wsRef, pollingRef, mounted, effStatus,
                   timers, timerSeq, sockets, socketSeq, wsAttempts, wsSeq>>

\* the POST resolved: the call goes on to `await fetchStatus()`
PostOk(c) ==
    /\ calls[c].pc = "post"
    /\ calls' = [calls EXCEPT ![c].pc = "refetch", ![c].refetches = @ + 1,
                              ![c].refetch = "pending"]
    /\ lastOp' = "post ok"
    /\ UNCHANGED <<hookState, wsRef, pollingRef, mounted, effStatus, timers,
                   timerSeq, sockets, socketSeq, wsAttempts, wsSeq, inflight>>

\* faulty variant of StartPostFailed: the catch block rethrows without setError
StartPostFailed_NoSetError(c, m) ==
    /\ calls[c].op = "start"
    /\ calls[c].pc = "post"
    /\ isLoading' = FALSE
    /\ calls' = [calls EXCEPT ![c].pc = "rejected", ![c].postErr = m,
                              ![c].thrown = m]
    /\ lastOp' = "post failed"
    /\ UNCHANGED <<status, agentStats, timeSeriesData, activeCustomers,
                   recentEvents, error, wsRef, pollingRef, mounted, effStatus,
                   timers, timerSeq, sockets, socketSeq, wsAttempts, wsSeq,
                   inflight>>

\* startArena's catch and finally: setError, rethrow, setIsLoading(false)
StartPostFailed(c, m) ==
    /\ calls[c].op = "start"
    /\ calls[c].pc = "post"
    /\ error' = ErrorText(m, "Failed to start arena")
    /\ isLoading' = FALSE
    /\ calls' = [calls EXCEPT ![c].pc = "rejected", ![c].postErr = m,
                              ![c].thrown = m]
    /\ lastOp' = "post failed"
    /\ UNCHANGED <<status, agentStats, timeSeriesData, activeCustomers,
                   recentEvents, wsRef, pollingRef, mounted, effStatus, timers,
                   timerSeq, sockets, socketSeq, wsAttempts, wsSeq, inflight>>

\* faulty variant of StopPostFailed: the refetch is moved to the finally block
StopPostFailed_Refetch(c, m) ==
    /\ calls[c].op = "stop"
    /\ calls[c].pc = "post"
    /\ error' = ErrorText(m, "Failed to stop arena")
    /\ calls' = [calls EXCEPT ![c].pc = "refetch", ![c].postErr = m,
                              ![c].refetches = @ + 1, ![c].refetch = "pending"]
    /\ lastOp' = "post failed"
    /\ UNCHANGED <<status, agentStats, timeSeriesData, activeCustomers,
                   recentEvents, isLoading, wsRef, pollingRef, mounted,
                   effStatus, timers, timerSeq, sockets, socketSeq, wsAttempts,
                   wsSeq, inflight>>

\* stopArena's catch and finally: setError, setIsLoading(false), no rethrow
StopPostFailed(c, m) ==
    /\ calls[c].op = "stop"
    /\ calls[c].pc = "post"
    /\ error' = ErrorText(m, "Failed to stop arena")
    /\ isLoading' = FALSE
    /\ calls' = [calls EXCEPT ![c].pc = "resolved", ![c].postErr = m]
    /\ lastOp' = "post failed"
    /\ UNCHANGED <<status, agentStats, timeSeriesData, activeCustomers,
                   recentEvents, wsRef, pollingRef, mounted, effStatus, timers,
                   timerSeq, sockets, socketSeq, wsAttempts, wsSeq, inflight>>

\* the call's fetchStatus got its response; then the finally block
RefetchOk(c, ss, ps) ==
    /\ calls[c].pc = "refetch"
    /\ \E s \in ss, p \in ps :
          /\ StatusAllowed(s)
          /\ FetchStatusApply(s, p)
    /\ isLoading' = FALSE
    /\ calls' = [calls EXCEPT ![c].pc = "resolved", ![c].refetch = "ok"]
    /\ lastOp' = "refetch ok"
    /\ UNCHANGED <<activeCustomers, recentEvents, error, wsRef, pollingRef,
                   mounted, effStatus, timers, timerSeq, sockets, socketSeq,
                   wsAttempts, wsSeq, inflight>>

\* faulty variant of RefetchFailed: fetchStatus lets its error through
RefetchFailed_Rethrow(c) ==
    /\ calls[c].pc = "refetch"
    /\ isLoading' = FALSE
    /\ error' = "fetch failed"
    /\ calls' = [calls EXCEPT ![c].pc = "rejected", ![c].refetch = "failed",
                              ![c].thrown = "fetch failed"]
    /\ lastOp' = "refetch failed"
    /\ UNCHANGED <<status, agentStats, timeSeriesData, activeCustomers,
                   recentEvents, wsRef, pollingRef, mounted, effStatus, timers,
                   timerSeq, sockets, socketSeq, wsAttempts, wsSeq, inflight>>

\* the call's fetchStatus failed and swallowed it; then the finally block
RefetchFailed(c) ==
    /\ calls[c].pc = "refetch"
    /\ isLoading' = FALSE
    /\ calls' = [calls EXCEPT ![c].pc = "resolved", ![c].refetch = "failed"]
    /\ lastOp' = "refetch failed"
    /\ UNCHANGED <<status, agentStats, timeSeriesData, activeCustomers,
                   recentEvents, error, wsRef, pollingRef, mounted, effStatus,
                   timers, timerSeq, sockets, socketSeq, wsAttempts, wsSeq,
                   inflight>>

CallIds == 1..Len(calls)

(***************************************************************************)
(* The hook as a whole.                                                    *)
(***************************************************************************)
\* the hook without user actions: mount, poll, push, teardown; one message
\* type stands for each branch of the handler
SyncMsgTypes == {"stats_update", "customer_generated", "deal_closed", "heartbeat"}

Next ==
    \/ /\ RunEffect
       /\ UNCHANGED aside
    \/ /\ Unmount
       /\ UNCHANGED aside
    \/ /\ PollTick
       /\ UNCHANGED aside
    \/ /\ FetchStatusOk(Statuses, Snapshots)
       /\ UNCHANGED aside
    \/ /\ FetchCustomersOk(CustomerLists)
       /\ UNCHANGED aside
    \/ /\ FetchEventsOk({0, EventsLimit})
       /\ UNCHANGED aside
    \/ /\ \E k \in Kinds : FetchFailed(k)
       /\ UNCHANGED aside
    \/ /\ WsMessage(SyncMsgTypes, Snapshots, MaxWsEvents)
       /\ UNCHANGED aside

Spec == Init /\ [][Next]_vars

\* the user actions, with the status refreshes and the effect they lead to
CallsNext ==
    \/ /\ RunEffect
       /\ UNCHANGED aside
    \/ /\ Unmount
       /\ UNCHANGED aside
    \/ /\ FetchStatusOk(Statuses, Snapshots)
       /\ UNCHANGED aside
    \/ /\ FetchFailed("status")
       /\ UNCHANGED aside
    \/ /\ StartArena
       /\ UNCHANGED aside
    \/ /\ StopArena
       /\ UNCHANGED aside
    \/ /\ \E c \in CallIds : PostOk(c)
       /\ UNCHANGED aside
    \/ /\ \E c \in CallIds, m \in ErrMessages : StartPostFailed(c, m)
       /\ UNCHANGED aside
    \/ /\ \E c \in CallIds, m \in ErrMessages : StopPostFailed(c, m)
       /\ UNCHANGED aside
    \/ /\ \E c \in CallIds : RefetchOk(c, Statuses, Snapshots)
       /\ UNCHANGED aside
    \/ /\ \E c \in CallIds : RefetchFailed(c)
       /\ UNCHANGED aside

SpecCalls == Init /\ [][CallsNext]_vars

\* the push channel between two poll ticks: every message type, the
\* refreshes the messages start, and the effect
PushNext ==
    \/ /\ RunEffect
       /\ UNCHANGED aside
    \/ /\ Unmount
       /\ UNCHANGED aside
    \/ /\ FetchStatusOk(Statuses, Snapshots)
       /\ UNCHANGED aside
    \/ /\ FetchCustomersOk(CustomerLists)
       /\ UNCHANGED aside
    \/ /\ \E k \in {"status", "customers"} : FetchFailed(k)
       /\ UNCHANGED aside
    \/ /\ WsMessage(MsgTypes, Snapshots, MaxWsEvents)
       /\ UNCHANGED aside

SpecPush == Init /\ [][PushNext]_vars

\* the event feed of a session that stays running: the message types come
\* round in a fixed order, so that the feed's content is told by its length
FeedType(k) == EventTypes[(k % 4) + 1]
FeedSnapshot == [agent_stats |-> "a1", time_series |-> "t1"]

FeedNext ==
    \/ /\ RunEffect
       /\ UNCHANGED aside
    \/ /\ PollTick
       /\ UNCHANGED aside
    \/ /\ FetchStatusOk({"running"}, {FeedSnapshot})
       /\ UNCHANGED aside
    \/ /\ FetchCustomersOk({"c1"})
       /\ UNCHANGED aside
    \/ /\ FetchEventsOk({0, EventsLimit})
       /\ UNCHANGED aside
    \/ /\ \E k \in Kinds : FetchFailed(k)
       /\ UNCHANGED aside
    \/ /\ WsMessage({"stats_update", "heartbeat", FeedType(wsSeq + 1)},
                     {FeedSnapshot}, FeedCap + FeedExtra)
       /\ UNCHANGED aside

SpecFeed == Init /\ [][FeedNext]_vars

\* the writes of agentStats / timeSeriesData in the order they completed
\* (the last two of them): who wrote, and the payload written
Completed(by, p) ==
    LET all == Append(done, [by |-> by, payload |-> p])
    IN  IF Len(all) <= 2 THEN all ELSE <<all[2], all[3]>>

\* the writers of agentStats / timeSeriesData in a session that stays
\* running: the mount-time and poll-driven fetchStatus, the fetchStatus of
\* startArena calls, and stats_update pushes, completing in any order
RaceNext ==
    \/ /\ RunEffect
       /\ UNCHANGED aside
    \/ /\ PollTick
       /\ UNCHANGED aside
    \/ /\ \E p \in Snapshots :
             /\ FetchStatusOk({"running"}, {p})
             /\ done' = Completed("fetchStatus", p)
       /\ UNCHANGED <<sortVars, uiVars>>
    \/ /\ \E k \in Kinds : FetchFailed(k)
       /\ UNCHANGED aside
    \/ /\ \E p \in Snapshots :
             /\ WsMessage({"stats_update"}, {p}, MaxWsEvents)
             /\ done' = Completed("stats_update", p)
       /\ UNCHANGED <<sortVars, uiVars>>
    \/ /\ StartArena
       /\ UNCHANGED aside
    \/ /\ \E c \in CallIds : PostOk(c)
       /\ UNCHANGED aside
    \/ /\ \E c \in CallIds, p \in Snapshots :
             /\ RefetchOk(c, {"running"}, {p})
             /\ done' = Completed("refetch", p)
       /\ UNCHANGED <<sortVars, uiVars>>

SpecRace == Init /\ [][RaceNext]_vars

\* nothing is in flight: no background request, no call
Quiet ==
    /\ \A k \in Kinds : inflight[k] = 0
    /\ \A c \in CallIds : Settled(c)

\* everything that can run in the hook, one thing at a time: a poll tick, an
\* event message or a user call comes when the requests of the one before
\* have settled; one payload of each kind
StatusNext ==
    \/ /\ RunEffect
       /\ UNCHANGED aside
    \/ /\ Unmount
       /\ UNCHANGED aside
    \/ /\ Quiet
       /\ PollTick
       /\ UNCHANGED aside
    \/ /\ FetchStatusOk(Statuses, {FeedSnapshot})
       /\ UNCHANGED aside
    \/ /\ FetchCustomersOk({"c1"})
       /\ UNCHANGED aside
    \/ /\ FetchEventsOk({EventsLimit})
       /\ UNCHANGED aside
    \/ /\ Quiet
       /\ WsMessage(MsgTypes, {FeedSnapshot}, MaxWsEvents)
       /\ UNCHANGED aside
    \/ /\ Quiet
       /\ StartArena
       /\ UNCHANGED aside
    \/ /\ Quiet
       /\ StopArena
       /\ UNCHANGED aside
    \/ /\ \E c \in CallIds : PostOk(c)
       /\ UNCHANGED aside
    \/ /\ \E c \in CallIds : RefetchOk(c, Statuses, {FeedSnapshot})
       /\ UNCHANGED aside

SpecStatus == Init /\ [][StatusNext]_vars

\* every trigger of a GET next to the failures of the GETs: the server keeps
\* reporting a running arena, and a trigger fires when nothing is pending
RetryNext ==
    \/ /\ RunEffect
       /\ UNCHANGED aside
    \/ /\ Quiet
       /\ PollTick
       /\ UNCHANGED aside
    \/ /\ FetchStatusOk({"running"}, {FeedSnapshot})
       /\ UNCHANGED aside
    \/ /\ FetchCustomersOk({"c1"})
       /\ UNCHANGED aside
    \/ /\ FetchEventsOk({EventsLimit})
       /\ UNCHANGED aside
    \/ /\ \E k \in Kinds : FetchFailed(k)
       /\ UNCHANGED aside
    \/ /\ Quiet
       /\ WsMessage(MsgTypes, {FeedSnapshot}, MaxWsEvents)
       /\ UNCHANGED aside
    \/ /\ Quiet
       /\ StartArena
       /\ UNCHANGED aside
    \/ /\ Quiet
       /\ StopArena
       /\ UNCHANGED aside
    \/ /\ \E c \in CallIds : PostOk(c)
       /\ UNCHANGED aside
    \/ /\ \E c \in CallIds : RefetchOk(c, {"running"}, {FeedSnapshot})
       /\ UNCHANGED aside
    \/ /\ \E c \in CallIds : RefetchFailed(c)
       /\ UNCHANGED aside

SpecRetry == Init /\ [][RetryNext]_vars

\* the leaderboard: responses arrive, the page asks for a sorted view
SortNext ==
    \/ /\ SwrData
       /\ UNCHANGED <<arenaRest, done, uiVars>>
    \/ /\ \E key \in SortKeys : GetSortedEntries(key)
       /\ UNCHANGED <<arenaRest, done, uiVars>>

SpecSort == Init /\ [][SortNext]_vars

(***************************************************************************)
(* The admin API client (src/lib/admin/api.ts): the token and the user     *)
(* record in localStorage, login, logout and request().  A request() call  *)
(* reads the token when it is made and settles when its response arrives.  *)
(***************************************************************************)
MaxPending == 2

Tokens == {"t1", "t2"}
Users == {"u1", "u2"}

\* the HTTP statuses a response may carry; response.ok is 200..299
HttpStatuses == {200, 401, 403, 500}
ResponseOk(code) == code >= 200 /\ code <= 299

\* JSON.stringify(user) and JSON.parse(userStr)
Stringify(u) == "{" \o u \o "}"
Parse(str) ==
    IF \E u \in Users : Stringify(u) = str
       THEN CHOOSE u \in Users : Stringify(u) = str
       ELSE Null

\* localStorage.getItem(ADMIN_TOKEN_KEY)
GetToken(st) == st["admin_token"]

\* getUser: null without an item, else the parsed record
GetUser(st) ==
    IF st["admin_user"] = Null THEN Null ELSE Parse(st["admin_user"])

\* !!getToken()
IsAuthenticated(st) == GetToken(st) # Null

\* setToken / setUser
SetToken(st, token) == [st EXCEPT !["admin_token"] = token]
SetUser(st, user) == [st EXCEPT !["admin_user"] = Stringify(user)]

\* faulty variant of RemoveToken: only the token is removed
RemoveToken_TokenOnly(st) == [st EXCEPT !["admin_token"] = Null]

\* removeToken: both items are removed
RemoveToken(st) ==
    [st EXCEPT !["admin_token"] = Null, !["admin_user"] = Null]

\* login() got an OK response; data.token and data.user are stored when
\* present (Null: the field is missing)
LoginOk ==
    /\ \E token \in Tokens \cup {Null}, user \in Users \cup {Null} :
          storage' = LET withToken == IF token # Null
                                         THEN SetToken(storage, token)
                                         ELSE storage
                     IN  IF user # Null THEN SetUser(withToken, user)
                                        ELSE withToken
    /\ lastOp' = "login"
    /\ UNCHANGED <<adminReqs, outcome>>

Logout ==
    /\ storage' = RemoveToken(storage)
    /\ lastOp' = "logout"
    /\ UNCHANGED <<adminReqs, outcome>>

\* request() up to its await: the Authorization header carries the token
\* read now
RequestSend ==
    /\ Len(adminReqs) < MaxPending
    /\ adminReqs' = Append(adminReqs, GetToken(storage))
    /\ lastOp' = "request sent"
    /\ UNCHANGED <<storage, outcome>>

\* request() from its await on: the i-th call in flight gets a response
RequestSettle(i, code) ==
    /\ i \in 1..Len(adminReqs)
    /\ adminReqs' = [j \in 1..(Len(adminReqs) - 1) |->
                       IF j < i THEN adminReqs[j] ELSE adminReqs[j + 1]]
    /\ IF ~ResponseOk(code)
          THEN /\ storage' = IF code = 401 THEN RemoveToken(storage)
                                           ELSE storage
               /\ outcome' = [status |-> code, result |-> "rejected"]
          ELSE /\ outcome' = [status |-> code, result |-> "resolved"]
               /\ UNCHANGED storage
    /\ lastOp' = "request settled"

AdminNext ==
    \/ /\ LoginOk
       /\ UNCHANGED <<arenaRest, done, sortVars, pageVars, questionsVars,
                      tableVars>>
    \/ /\ Logout
       /\ UNCHANGED <<arenaRest, done, sortVars, pageVars, questionsVars,
                      tableVars>>
    \/ /\ RequestSend
       /\ UNCHANGED <<arenaRest, done, sortVars, pageVars, questionsVars,
                      tableVars>>
    \/ /\ \E i \in 1..MaxPending, code \in HttpStatuses : RequestSettle(i, code)
       /\ UNCHANGED <<arenaRest, done, sortVars, pageVars, questionsVars,
                      tableVars>>

SpecAdmin == Init /\ [][AdminNext]_vars

(***************************************************************************)
(* LeaderboardPage (src/app/page.tsx): the month and agent type selects    *)
(* and the effect that fetches the leaderboard for them.  The effect of a  *)
(* selection is taken together with it: it only starts the request.        *)
(***************************************************************************)
Months == {"2026-01", "2025-12"}
AgentTypes == {"all", "insurer"}

\* the entries the backend returns for a (month, agentType) pair
EntriesFor(m, t) == <<m, t>>

\* the effect's fetchData up to its await
FetchData(m, t) ==
    /\ Len(pageReqs) < MaxPending
    /\ pageIsLoading' = TRUE
    /\ pageError' = Null
    /\ pageReqs' = Append(pageReqs, [month |-> m, agentType |-> t])

SetMonth(m) ==
    /\ m # month
    /\ month' = m
    /\ FetchData(m, agentType)
    /\ lastOp' = "setMonth"
    /\ UNCHANGED <<agentType, agents>>

SetAgentType(t) ==
    /\ t # agentType
    /\ agentType' = t
    /\ FetchData(month, t)
    /\ lastOp' = "setAgentType"
    /\ UNCHANGED <<month, agents>>

\* pageReqs without its i-th request
WithoutReq(i) ==
    [j \in 1..(Len(pageReqs) - 1) |->
        IF j < i THEN pageReqs[j] ELSE pageReqs[j + 1]]

\* fetchData after its await: the i-th request in flight is answered
LeaderboardOk(i) ==
    /\ i \in 1..Len(pageReqs)
    /\ agents' = EntriesFor(pageReqs[i].month, pageReqs[i].agentType)
    /\ pageIsLoading' = FALSE
    /\ pageReqs' = WithoutReq(i)
    /\ lastOp' = "leaderboard ok"
    /\ UNCHANGED <<month, agentType, pageError>>

\* fetchData's catch and finally
LeaderboardFailed(i) ==
    /\ i \in 1..Len(pageReqs)
    /\ pageError' = "Failed to load data"
    /\ pageIsLoading' = FALSE
    /\ pageReqs' = WithoutReq(i)
    /\ lastOp' = "leaderboard failed"
    /\ UNCHANGED <<month, agentType, agents>>

PageNext ==
    \/ /\ \E m \in Months : SetMonth(m)
       /\ UNCHANGED <<arenaRest, done, sortVars, adminVars, questionsVars,
                      tableVars>>
    \/ /\ \E t \in AgentTypes : SetAgentType(t)
       /\ UNCHANGED <<arenaRest, done, sortVars, adminVars, questionsVars,
                      tableVars>>
    \/ /\ \E i \in 1..MaxPending : LeaderboardOk(i)
       /\ UNCHANGED <<arenaRest, done, sortVars, adminVars, questionsVars,
                      tableVars>>
    \/ /\ \E i \in 1..MaxPending : LeaderboardFailed(i)
       /\ UNCHANGED <<arenaRest, done, sortVars, adminVars, questionsVars,
                      tableVars>>

SpecPage == Init /\ [][PageNext]_vars

(***************************************************************************)
(* AdminQuestionsPage (src/app/admin/questions/page.tsx): the page number, *)
(* a filter, and fetchQuestions.  The effect with deps [currentPage,       *)
(* dimension, ...] is taken together with the update that triggers it.     *)
(* The pagination buttons exist only when the table is rendered: not       *)
(* loading, and at least one question.                                     *)
(***************************************************************************)
\* the catch block's mock data
MockQuestions == 15
MockTotalPages == 23
\* the page size asked for
PageSize == 20

Dimensions == {"all", "knowledge"}

\* total_pages of a response; 0 stands for 0 and for a missing field
TotalPagesValues == {0, 1, 2, 3}

Max(a, b) == IF a > b THEN a ELSE b

\* n calls of fetchQuestions up to their await
FetchQuestions(n) ==
    /\ qReqs + n <= MaxPending
    /\ qReqs' = qReqs + n
    /\ loading' = IF n > 0 THEN TRUE ELSE loading

Rendered == ~loading /\ questions > 0

\* the previous-page button
PrevClick ==
    /\ Rendered
    /\ currentPage # 1
    /\ currentPage' = Max(1, currentPage - 1)
    /\ FetchQuestions(IF currentPage' # currentPage THEN 1 ELSE 0)
    /\ lastOp' = "prev"
    /\ UNCHANGED <<totalPages, questions, dimension>>

\* the next-page button
NextClick ==
    /\ Rendered
    /\ currentPage # totalPages
    /\ currentPage' = Min(totalPages, currentPage + 1)
    /\ FetchQuestions(IF currentPage' # currentPage THEN 1 ELSE 0)
    /\ lastOp' = "next"
    /\ UNCHANGED <<totalPages, questions, dimension>>

\* a filter select
SetDimension(d) ==
    /\ d # dimension
    /\ dimension' = d
    /\ FetchQuestions(1)
    /\ lastOp' = "setDimension"
    /\ UNCHANGED <<currentPage, totalPages, questions>>

\* handleSearch: setCurrentPage(1) and a fetch of its own, besides the
\* effect's when the page changed
HandleSearch ==
    /\ currentPage' = 1
    /\ FetchQuestions(IF currentPage # 1 THEN 2 ELSE 1)
    /\ lastOp' = "search"
    /\ UNCHANGED <<totalPages, questions, dimension>>

\* fetchQuestions after its await: a response with n questions
QuestionsOk(n, tp) ==
    /\ qReqs > 0
    /\ qReqs' = qReqs - 1
    /\ questions' = n
    /\ totalPages' = tp
    /\ loading' = FALSE
    /\ lastOp' = "questions ok"
    /\ UNCHANGED <<currentPage, dimension>>

\* fetchQuestions' catch and finally
QuestionsFailed ==
    /\ qReqs > 0
    /\ qReqs' = qReqs - 1
    /\ questions' = MockQuestions
    /\ totalPages' = MockTotalPages
    /\ loading' = FALSE
    /\ lastOp' = "questions failed"
    /\ UNCHANGED <<currentPage, dimension>>

QuestionsNext ==
    \/ /\ PrevClick
       /\ UNCHANGED <<arenaRest, done, sortVars, adminVars, pageVars,
                      tableVars>>
    \/ /\ NextClick
       /\ UNCHANGED <<arenaRest, done, sortVars, adminVars, pageVars,
                      tableVars>>
    \/ /\ \E d \in Dimensions : SetDimension(d)
       /\ UNCHANGED <<arenaRest, done, sortVars, adminVars, pageVars,
                      tableVars>>
    \/ /\ HandleSearch
       /\ UNCHANGED <<arenaRest, done, sortVars, adminVars, pageVars,
                      tableVars>>
    \/ /\ \E n \in {0, PageSize}, tp \in TotalPagesValues : QuestionsOk(n, tp)
       /\ UNCHANGED <<arenaRest, done, sortVars, adminVars, pageVars,
                      tableVars>>
    \/ /\ QuestionsFailed
       /\ UNCHANGED <<arenaRest, done, sortVars, adminVars, pageVars,
                      tableVars>>

SpecQuestions == Init /\ [][QuestionsNext]_vars

(***************************************************************************)
(* RankingTable (src/components/leaderboard/ranking-table.tsx): a row      *)
(* click toggles the row's agent in the compare selection when compareMode *)
(* is on, and expands or collapses the row otherwise.                      *)
(***************************************************************************)
\* the size from which toggleSelect adds no more
MaxSelected == 3

AgentIds == {"A", "B", "C", "D", "E"}

\* faulty variant of ToggleSelect: the size test lets one more in
ToggleSelect_OneMore(prev, agentId) ==
    IF agentId \in prev THEN prev \ {agentId}
    ELSE IF Cardinality(prev) <= MaxSelected THEN prev \cup {agentId}
    ELSE prev

\* the updater of toggleSelect, on a copy of prev
ToggleSelect(prev, agentId) ==
    IF agentId \in prev THEN prev \ {agentId}
    ELSE IF Cardinality(prev) < MaxSelected THEN prev \cup {agentId}
    ELSE prev

\* the row's onClick
RowClick(agentId) ==
    IF compareMode
       THEN /\ selectedIds' = ToggleSelect(selectedIds, agentId)
            /\ lastOp' = "toggleSelect " \o agentId
            /\ UNCHANGED <<expandedId, compareMode>>
       ELSE /\ expandedId' = IF expandedId = agentId THEN Null ELSE agentId
            /\ lastOp' = "expand"
            /\ UNCHANGED <<selectedIds, compareMode>>

\* the page's compare switch
SetCompareMode ==
    /\ compareMode' = ~compareMode
    /\ lastOp' = "setCompareMode"
    /\ UNCHANGED <<selectedIds, expandedId>>

TableNext ==
    \/ /\ \E agentId \in AgentIds : RowClick(agentId)
       /\ UNCHANGED <<arenaRest, done, sortVars, adminVars, pageVars,
                      questionsVars>>
    \/ /\ SetCompareMode
       /\ UNCHANGED <<arenaRest, done, sortVars, adminVars, pageVars,
                      questionsVars>>

SpecTable == Init /\ [][TableNext]_vars

(***************************************************************************)
(* Properties of the useArena hook.                                        *)
(***************************************************************************)

\* C1: whatever messages the sockets deliver (any types, any number, any
\* order, interleaved with the poll's fetchEvents responses of at most 20
\* events), recentEvents never holds more than 50 events.
C1_FeedNeverExceedsCap == Len(recentEvents) <= FeedCap

\* C1 witness: more event messages than the cap have been delivered and the
\* feed is full.
C1_FeedFullAfterOverflow == wsSeq > FeedCap /\ Len(recentEvents) = FeedCap

\* C2: when the effect runs for a status change from "running" to another
\* value, the interval is cleared, the socket the hook holds is closed and
\* both refs are null afterwards; the non-running branch adds nothing to what
\* the cleanup before it did, and a further teardown (a change between two
\* non-running values) changes neither timers, sockets nor refs.  So while
\* the effect's status is not "running" nothing is armed.
C2_TeardownOnLeavingRunning ==
    /\ [](mounted /\ effStatus # "running" =>
            /\ pollingRef = NoRef /\ wsRef = NoRef
            /\ timers = {} /\ sockets = {})
    /\ [][/\ (effStatus = "running" /\ effStatus' # "running") =>
               /\ pollingRef' = NoRef /\ wsRef' = NoRef
               /\ pollingRef \notin timers' /\ wsRef \notin sockets'
               /\ timers' = CleanupTimers /\ sockets' = CleanupSockets
          /\ (effStatus # "running" /\ effStatus' # "running") =>
               UNCHANGED <<timers, sockets, pollingRef, wsRef>>]_vars

\* C2 witness: the effect has just run for "completed" after a poll and a
\* socket had been armed, and both are gone.
C2_TornDownAfterRunning ==
    /\ mounted /\ lastOp = "effect" /\ effStatus = "completed"
    /\ timerSeq >= 1 /\ socketSeq >= 1
    /\ timers = {} /\ sockets = {}

\* C3: after unmount, whatever the status was, no interval is live and no
\* socket the hook created is open, so no poll tick fires and no message is
\* handled any more.
C3_UnmountTearsDown ==
    ~mounted =>
        /\ timers = {} /\ sockets = {}
        /\ lastOp # "tick"
        /\ lastOp \notin {"ws " \o ty : ty \in MsgTypes}

\* C3 witness: unmounted while running, with the poll and the socket armed.
C3_UnmountedWhileRunning ==
    /\ ~mounted /\ effStatus = "running" /\ status = "running"
    /\ pollingRef # NoRef /\ wsRef # NoRef

\* C4: after unmount no hook state field changes any more.
C4_NoUpdateAfterUnmount == [][~mounted => UNCHANGED hookState]_vars

\* C5 (as stated): every settled stopArena call has refetched the status,
\* whether its POST succeeded or failed.
C5_StopAlwaysRefetches ==
    \A c \in CallIds :
        calls[c].op = "stop" /\ Settled(c) => calls[c].refetches >= 1

\* C5 (amended): every stopArena call issues the stop POST; it refetches the
\* status, once and after the POST, exactly when the POST succeeded; when the
\* POST failed it makes no refetch.
C5_StopRefetchesOnSuccessOnly ==
    \A c \in CallIds :
        calls[c].op = "stop" =>
            /\ calls[c].pc = "post" => calls[c].refetches = 0
            /\ calls[c].pc = "refetch" =>
                  calls[c].refetches = 1 /\ calls[c].postErr = Null
            /\ Settled(c) =>
                  /\ calls[c].pc = "resolved"
                  /\ calls[c].postErr = Null =>
                        calls[c].refetches = 1 /\ calls[c].refetch \in {"ok", "failed"}
                  /\ calls[c].postErr # Null =>
                        calls[c].refetches = 0 /\ calls[c].refetch = "none"

\* C5 witness: one stopArena call settled after a failed POST and another
\* after a successful one.
C5_StopSettledBothWays ==
    \E c, d \in CallIds :
        /\ calls[c].op = "stop" /\ Settled(c) /\ calls[c].postErr # Null
        /\ calls[d].op = "stop" /\ Settled(d) /\ calls[d].postErr = Null

\* C6: in the step in which a startArena or stopArena call settles because
\* its POST failed, error becomes that failure's message, or the default
\* text of the action when the message is empty.
C6_PostFailureStored ==
    [][\A c \in CallIds :
          (calls[c].pc = "post" /\ calls'[c].postErr # Null) =>
              error' = IF calls'[c].postErr # ""
                          THEN calls'[c].postErr
                          ELSE IF calls[c].op = "start"
                                  THEN "Failed to start arena"
                                  ELSE "Failed to stop arena"]_vars

\* C6 witness: a start failed with a message and a stop failed with an empty
\* one, which left the stop's default text in error.
C6_BothFailuresStored ==
    \E c, d \in CallIds :
        /\ calls[c].op = "start" /\ calls[c].postErr = "API 500"
        /\ calls[d].op = "stop" /\ calls[d].postErr = ""
        /\ error = "Failed to stop arena"

\* C7: a startArena call rejects exactly when its POST failed, and then with
\* the error the POST threw; a call whose POST succeeded resolves, also when
\* its status refetch failed.
C7_StartRejectsOnlyOnPostFailure ==
    \A c \in CallIds :
        calls[c].op = "start" /\ Settled(c) =>
            /\ calls[c].postErr # Null =>
                  calls[c].pc = "rejected" /\ calls[c].thrown = calls[c].postErr
            /\ calls[c].postErr = Null =>
                  calls[c].pc = "resolved" /\ calls[c].thrown = Null

\* C7 witness: one startArena call rejected with its POST's error, another
\* resolved although its refetch failed.
C7_RejectedAndSwallowed ==
    \E c, d \in CallIds :
        /\ calls[c].op = "start" /\ calls[c].pc = "rejected"
        /\ calls[c].thrown = "API 500"
        /\ calls[d].op = "start" /\ calls[d].pc = "resolved"
        /\ calls[d].refetch = "failed"

\* C8: a step in which a background fetchStatus, fetchCustomers or
\* fetchEvents fails changes none of the seven state fields (and no call's
\* outcome: nothing is raised).
C8_FailedFetchChangesNothing ==
    [][lastOp' \in {"failed " \o k : k \in Kinds} =>
          UNCHANGED <<hookState, calls>>]_vars

\* C8 witness: a status refresh failed while earlier data was on display.
C8_FailedWithStaleData ==
    /\ lastOp = "failed status"
    /\ status = "running" /\ agentStats # "empty" /\ activeCustomers # "empty"
    /\ Len(recentEvents) > 0

\* C9: a startArena call makes no refetch while its POST is in flight, one
\* refetch once the POST succeeded, and settles only when that refetch has
\* settled; a call whose POST failed makes none.  The step that settles the
\* call sets isLoading to false, and a call running alone keeps isLoading
\* true until then.
C9_StartRefetchOrder ==
    /\ [](\A c \in CallIds :
            calls[c].op = "start" =>
                /\ calls[c].pc = "post" =>
                      calls[c].refetches = 0 /\ calls[c].refetch = "none"
                /\ calls[c].pc = "refetch" =>
                      calls[c].refetches = 1 /\ calls[c].refetch = "pending"
                /\ calls[c].pc = "resolved" =>
                      calls[c].refetches = 1 /\ calls[c].refetch \in {"ok", "failed"}
                /\ calls[c].pc = "rejected" =>
                      calls[c].refetches = 0 /\ calls[c].refetch = "none"
                /\ (Len(calls) = 1 /\ ~Settled(c)) => isLoading)
    /\ [][\A c \in CallIds :
            (calls[c].op = "start" /\ ~Settled(c) /\ calls'[c].pc = "resolved") =>
                /\ calls[c].pc = "refetch"
                /\ isLoading' = FALSE]_vars

\* C9 witness: a startArena call resolved after its refetch succeeded.
C9_StartResolvedAfterRefetch ==
    \E c \in CallIds :
        /\ calls[c].op = "start" /\ calls[c].pc = "resolved"
        /\ calls[c].refetch = "ok" /\ status = "running" /\ ~isLoading

\* C10: the effect arms the poll and tries the socket exactly when it runs
\* for a change of status to "running": one new interval, one connection
\* attempt; nothing is armed otherwise, and an interval is live only while
\* the effect's status is "running".  Every tick calls all three refreshes.
C10_ArmOnRunningOnly ==
    /\ [](timers # {} => mounted /\ effStatus = "running")
    /\ [][/\ (effStatus # "running" /\ effStatus' = "running") =>
               /\ pollingRef' \notin timers /\ pollingRef' # NoRef
               /\ timers' = timers \cup {pollingRef'}
               /\ timerSeq' = timerSeq + 1
               /\ wsAttempts' = wsAttempts + 1
          /\ (timers' \ timers # {} \/ wsAttempts' # wsAttempts
                \/ sockets' \ sockets # {}) =>
               /\ status = "running"
               /\ effStatus # "running" /\ effStatus' = "running"
          /\ lastOp' = "tick" =>
               inflight' = [k \in Kinds |-> inflight[k] + 1]]_vars

\* C10 witness: status became "running" a second time, the poll was armed
\* again and has ticked.
C10_SecondPollTicked ==
    /\ timerSeq = 2 /\ wsAttempts = 2 /\ lastOp = "tick"
    /\ \A k \in Kinds : inflight[k] = 1

\* C11: a message of one of the four event types makes recentEvents the
\* first 50 of (the message, then the previous list): the message is at the
\* head, the earlier events follow in their order, and of 50 events the last
\* one is dropped.
C11_EventPrepended ==
    [][lastOp' \in {"ws " \o EventTypes[i] : i \in 1..4} =>
          /\ Len(recentEvents') =
                IF Len(recentEvents) < FeedCap THEN Len(recentEvents) + 1
                                               ELSE FeedCap
          /\ recentEvents'[1].src = "ws"
          /\ recentEvents'[1].id = wsSeq + 1
          /\ "ws " \o recentEvents'[1].type = lastOp'
          /\ \A i \in 2..Len(recentEvents') :
                recentEvents'[i] = recentEvents[i - 1]]_vars

\* C11 witness: a message arrived when 50 events were present, so that the
\* feed now holds that message and the 49 newest before it, fetched ones
\* among them.
C11_OldestDropped ==
    /\ lastOp \in {"ws " \o EventTypes[i] : i \in 1..4}
    /\ wsSeq > FeedCap - EventsLimit + 1
    /\ Len(recentEvents) = FeedCap
    /\ recentEvents[1].id = wsSeq
    /\ recentEvents[FeedCap].src = "rest"
    /\ recentEvents[FeedCap].id < EventsLimit

\* C12: a customer_generated message starts one fetchCustomers and no other
\* refresh, and is put at the head of recentEvents.
C12_CustomerGeneratedRefetches ==
    [][lastOp' = "ws customer_generated" =>
          /\ inflight' = [inflight EXCEPT !["customers"] = @ + 1]
          /\ Len(recentEvents') > 0
          /\ recentEvents'[1] = WsEvent("customer_generated", wsSeq + 1)
          /\ UNCHANGED <<status, agentStats, timeSeriesData, activeCustomers>>]_vars

\* C12 witness: the message was handled while status was "running".
C12_CustomerGeneratedWhileRunning ==
    /\ lastOp = "ws customer_generated"
    /\ status = "running" /\ effStatus = "running"
    /\ inflight["customers"] = 1 /\ inflight["status"] = 0
    /\ recentEvents[1].type = "customer_generated"

\* C13: a deal_closed, compliance_violation or customer_lost message starts
\* one fetchStatus and no other refresh, and is put at the head of
\* recentEvents.
C13_StatusEventRefetches ==
    [][\A ty \in StatusEventTypes :
          lastOp' = "ws " \o ty =>
              /\ inflight' = [inflight EXCEPT !["status"] = @ + 1]
              /\ Len(recentEvents') > 0
              /\ recentEvents'[1] = WsEvent(ty, wsSeq + 1)
              /\ UNCHANGED <<status, agentStats, timeSeriesData,
                             activeCustomers>>]_vars

\* C13 witness: a customer_lost message was handled, its fetchStatus is in
\* flight and no fetchCustomers is.
C13_CustomerLostHandled ==
    /\ lastOp = "ws customer_lost"
    /\ inflight["status"] = 1 /\ inflight["customers"] = 0
    /\ recentEvents[1].type = "customer_lost"

C15_SocketThrowTolerated ==
    /\ [](effStatus = "running" /\ socketSeq = 0 =>
            wsRef = NoRef /\ sockets = {})
    /\ [][/\ (wsAttempts' # wsAttempts /\ socketSeq' = socketSeq) =>
               /\ pollingRef' # NoRef /\ pollingRef' \in timers'
               /\ wsRef' = NoRef
               /\ UNCHANGED sockets
          /\ (effStatus = "running" /\ wsRef = NoRef
                /\ (effStatus' # "running" \/ ~mounted')) =>
               /\ timers' = {}
               /\ CleanupSockets = sockets
               /\ UNCHANGED <<sockets, wsRef, socketSeq>>]_vars

\* C15 witness: the socket could not be created, the poll was armed, and the
\* effect has since torn it down.
C15_TornDownAfterThrow ==
    /\ lastOp = "effect" /\ effStatus # "running"
    /\ wsAttempts = 1 /\ socketSeq = 0 /\ timerSeq = 1
    /\ timers = {} /\ pollingRef = NoRef

\* C16: stopArena() called while the arena is not running issues its POST
\* like any other call, and while status stays non-running no interval is
\* created or cleared and no socket is opened or closed: the refs are null
\* and the effect's teardown finds nothing to do.
C16_StopWhileIdle ==
    /\ [](effStatus # "running" => pollingRef = NoRef /\ wsRef = NoRef)
    /\ [][/\ lastOp' = "stopArena" =>
               /\ Len(calls') = Len(calls) + 1
               /\ calls'[Len(calls')].op = "stop"
               /\ calls'[Len(calls')].pc = "post"
               /\ UNCHANGED <<timers, sockets, pollingRef, wsRef, timerSeq,
                              socketSeq, wsAttempts>>
          /\ (effStatus # "running" /\ status # "running"
                /\ status' # "running") =>
               UNCHANGED <<timers, sockets, pollingRef, wsRef, timerSeq,
                           socketSeq, wsAttempts>>]_vars

\* C16 witness: the arena never ran; a stopArena() call was made, its POST
\* succeeded, its refetch reported another non-running status, and the
\* effect has run for it.
C16_StoppedIdleArena ==
    /\ Len(calls) = 1
    /\ calls[1].op = "stop" /\ calls[1].pc = "resolved"
    /\ calls[1].refetch = "ok"
    /\ status = "completed" /\ effStatus = "completed" /\ lastOp = "effect"
    /\ wsAttempts = 0 /\ timerSeq = 0 /\ socketSeq = 0
    /\ timers = {} /\ sockets = {}

\* C19: every startArena() call issues its own POST, whatever calls are in
\* flight, and every start call whose POST succeeded has made one
\* fetchStatus of its own.
C19_StartNotDeduplicated ==
    /\ [](\A c \in CallIds :
            calls[c].op = "start" =>
               /\ (calls[c].pc = "post" => calls[c].refetches = 0)
               /\ (calls[c].pc # "post" /\ calls[c].postErr = Null =>
                      calls[c].refetches = 1)
               /\ (calls[c].pc = "resolved" => calls[c].postErr = Null))
    /\ [][lastOp' = "startArena" =>
             /\ Len(calls') = Len(calls) + 1
             /\ calls'[Len(calls')] = NewCall("start")]_vars

\* C19 witness: of two startArena() calls made one after the other, the
\* POSTs were in flight together, both succeeded, and each call is at its
\* own refetch.
C19_TwoStartsRefetching ==
    /\ Len(calls) = 2
    /\ \A c \in 1..2 : /\ calls[c].op = "start"
                       /\ calls[c].pc = "refetch"
                       /\ calls[c].refetches = 1
    /\ lastOp = "post ok"

\* C20: whatever the order in which the requests were issued and whatever
\* each response or push carries, agentStats and timeSeriesData are the
\* payload of the write that completed last.
C20_LastCompletedWriteWins ==
    done # <<>> =>
        /\ agentStats = done[Len(done)].payload.agent_stats
        /\ timeSeriesData = done[Len(done)].payload.time_series

\* C20 witness: the mount-time fetchStatus, issued before a startArena
\* call's refetch, completed after it with another payload, and its payload
\* is the one on display.
C20_EarlierRequestCompletedLast ==
    /\ Len(done) = 2
    /\ done[1].by = "refetch" /\ done[2].by = "fetchStatus"
    /\ done[1].payload # done[2].payload
    /\ wsAttempts = 0 /\ timerSeq = 0
    /\ agentStats = done[2].payload.agent_stats

\* C21: a successful refresh overwrites its own slots with the response and
\* nothing else: fetchStatus the three fields of one response, fetchCustomers
\* activeCustomers, fetchEvents recentEvents; a response equal to what the
\* slots hold (the same response once more) leaves the whole state as it is.
C21_RefreshOverwritesOwnSlots ==
    [][/\ lastOp' = "fetchStatus ok" =>
            /\ status' \in Statuses
            /\ [agent_stats |-> agentStats', time_series |-> timeSeriesData']
                  \in Snapshots
            /\ UNCHANGED <<activeCustomers, recentEvents, isLoading, error>>
       /\ lastOp' = "fetchCustomers ok" =>
            /\ activeCustomers' \in CustomerLists
            /\ UNCHANGED <<status, agentStats, timeSeriesData, recentEvents,
                           isLoading, error>>
       /\ lastOp' = "fetchEvents ok" =>
            /\ recentEvents' \in {FetchedEvents(0), FetchedEvents(EventsLimit)}
            /\ UNCHANGED <<status, agentStats, timeSeriesData, activeCustomers,
                           isLoading, error>>
       /\ (/\ lastOp' \in {"fetchStatus ok", "fetchCustomers ok",
                           "fetchEvents ok"}
           /\ lastOp' = "fetchStatus ok" =>
                 <<status', agentStats', timeSeriesData'>>
                    = <<status, agentStats, timeSeriesData>>
           /\ lastOp' = "fetchCustomers ok" => activeCustomers' = activeCustomers
           /\ lastOp' = "fetchEvents ok" =>
                 \E n \in {0, EventsLimit} :
                    recentEvents = FetchedEvents(n) /\ recentEvents' = recentEvents)
          => UNCHANGED hookState]_vars

\* C21 witness: an events response replaced a feed that held pushed events,
\* with the other slots filled by their own refreshes.
C21_AllSlotsRefreshed ==
    /\ lastOp = "fetchEvents ok"
    /\ recentEvents = FetchedEvents(EventsLimit)
    /\ wsSeq > 0
    /\ status = "running"
    /\ agentStats = FeedSnapshot.agent_stats
    /\ timeSeriesData = FeedSnapshot.time_series
    /\ activeCustomers = "c1"

\* C22: a failed refresh issues no request: a GET is added only by a poll
\* tick or an event message (and, of a call, by its successful POST; the
\* mount-time fetchStatus is the one in flight initially); a failure only
\* takes its own request away.
C22_NoRetryOnFailure ==
    [][/\ (\E k \in Kinds : inflight'[k] > inflight[k]) =>
             lastOp' \in {"tick"} \cup {"ws " \o EventTypes[i] : i \in 1..4}
       /\ (\E c \in CallIds : c <= Len(calls')
                                 /\ calls'[c].refetches > calls[c].refetches) =>
             lastOp' = "post ok"
       /\ \A k \in Kinds :
             lastOp' = "failed " \o k =>
                /\ inflight' = Settle(inflight, k)
                /\ UNCHANGED <<hookState, calls, timers, sockets>>]_vars

\* C22 witness: the poll's status refresh failed; nothing is in flight and
\* the poll is armed, so the next attempt is the next tick's.
C22_FailedAwaitingNextTick ==
    /\ lastOp = "failed status"
    /\ \A k \in Kinds : inflight[k] = 0
    /\ status = "running" /\ timers # {} /\ agentStats # "empty"

\* C23 (as stated): at most one interval is armed and at most one socket is
\* open, and either exists only while status is "running".
C23_ArmedOnlyWhileStatusRunning ==
    /\ Cardinality(timers) <= 1
    /\ Cardinality(sockets) <= 1
    /\ (timers # {} \/ sockets # {}) => status = "running"

\* C23 (amended): at most one interval is armed and at most one socket is
\* open, each the one its ref holds, and either exists only between the
\* effect's run for status "running" and the effect's next run or the
\* unmount: when status leaves "running" they stay until the effect has run
\* for the new status.  A ref is overwritten only when what it held has been
\* cleared or closed.
C23_AtMostOneArmed ==
    /\ [](/\ Cardinality(timers) <= 1
          /\ Cardinality(sockets) <= 1
          /\ timers \subseteq {pollingRef}
          /\ sockets \subseteq {wsRef}
          /\ (timers # {} \/ sockets # {}) => mounted /\ effStatus = "running")
    /\ [][/\ (pollingRef' # pollingRef /\ pollingRef # NoRef) =>
               pollingRef \notin timers'
          /\ (wsRef' # wsRef /\ wsRef # NoRef) =>
               wsRef \notin sockets']_vars

\* C23 witness: status has left "running" and the effect has not yet run
\* for it: the second interval the hook armed is still live and has ticked,
\* and the second socket is still open.
C23_TickedBeforeTeardown ==
    /\ status # "running" /\ effStatus = "running" /\ mounted
    /\ timerSeq = 2 /\ timers = {2} /\ sockets # {}
    /\ lastOp = "tick"

\* C24 (as stated): status changes only in a step that completes a
\* successful fetchStatus, and an interval or socket goes away only when
\* status is not "running".
C24_TeardownOnlyAfterStatusFetch ==
    [][/\ status' # status => lastOp' \in {"fetchStatus ok", "refetch ok"}
       /\ (timers' # timers \/ sockets' # sockets) /\ timers' \subseteq timers
             /\ sockets' \subseteq sockets
          => status # "running"]_vars

\* C24 (amended): status changes only in a step that completes a successful
\* fetchStatus (a background one or a call's refetch); while the component
\* is mounted an interval or socket goes away only in an effect run for a
\* non-running status; the unmount takes them away whatever the status.
C24_StatusWrittenByFetchStatusOnly ==
    [][/\ status' # status => lastOp' \in {"fetchStatus ok", "refetch ok"}
       /\ lastOp' \notin {"fetchStatus ok", "refetch ok"} => UNCHANGED status
       /\ (timers' # timers \/ sockets' # sockets) /\ timers' \subseteq timers
             /\ sockets' \subseteq sockets
          => \/ lastOp' = "effect" /\ status # "running"
             \/ lastOp' = "unmount"]_vars

\* C24 witness: a stopArena call was made while the arena ran and status
\* stayed "running" through it, until the call's refetch reported another
\* status and the effect tore the poll and the socket down.
C24_TornDownAfterRefetch ==
    /\ lastOp = "effect" /\ effStatus # "running"
    /\ timerSeq = 1 /\ socketSeq = 1 /\ timers = {} /\ sockets = {}
    /\ \E c \in CallIds : /\ calls[c].op = "stop"
                          /\ calls[c].pc = "resolved"
                          /\ calls[c].refetch = "ok"
    /\ wsSeq > 0

\* C25: a message whose type is none of the five handled ones changes no
\* state field and starts no refresh.
C25_OtherMessageIgnored ==
    [][lastOp' = "ws heartbeat" =>
          UNCHANGED <<hookState, inflight, wsSeq, calls, timers, sockets,
                      wsRef, pollingRef>>]_vars

\* C25 witness: a message of another type arrived while data was on
\* display.
C25_HeartbeatWithData ==
    /\ lastOp = "ws heartbeat"
    /\ status = "running" /\ agentStats # "empty"
    /\ Len(recentEvents) > 0 /\ activeCustomers # "empty"

\* C26 (as stated): isLoading is true whenever a startArena or stopArena
\* call has begun and not settled, and false once all have settled.
C26_LoadingWhileAnyCallPending ==
    /\ (\E c \in CallIds : ~Settled(c)) => isLoading
    /\ (calls # <<>> /\ \A c \in CallIds : Settled(c)) => ~isLoading

(***************************************************************************)
(* Properties of getSortedEntries.                                         *)
(***************************************************************************)
\* C17: getSortedEntries("knowledge") returns the fetched entries by
\* non-increasing knowledge_score, entries of equal knowledge_score in the
\* order they have in the fetched list; with no data it returns the empty
\* list.
C17_KnowledgeSortStable ==
    sortKey = "knowledge" =>
        IF ~swrData.defined THEN sorted = <<>>
        ELSE LET es == swrData.entries
                 n  == Len(es)
             IN  /\ Len(sorted) = n
                 /\ \A i \in 1..n : \A j \in 1..n :
                       i < j => sorted[i].knowledge_score
                                   >= sorted[j].knowledge_score
                 /\ \E pi \in [1..n -> 1..n] :
                       /\ \A i \in 1..n : sorted[i] = es[pi[i]]
                       /\ \A i \in 1..n : \A j \in 1..n :
                             i # j => pi[i] # pi[j]
                       /\ \A i \in 1..n : \A j \in 1..n :
                             (i < j /\ sorted[i].knowledge_score
                                         = sorted[j].knowledge_score)
                                => pi[i] < pi[j]

\* C17 witness: a list whose first and last entries tie on knowledge_score,
\* with a lower one between them, was sorted by knowledge.
C17_TieKeptInOrder ==
    /\ sortKey = "knowledge" /\ swrData.defined
    /\ Len(swrData.entries) = 3
    /\ swrData.entries[1].agent_id = "B"
    /\ swrData.entries[2].agent_id = "C"
    /\ swrData.entries[3].agent_id = "A"
    /\ sorted[1].agent_id = "B" /\ sorted[2].agent_id = "A"

\* C18: for every sort key, unknown ones too, the result holds the fetched
\* entries, each as often as the fetched list does, and the call leaves
\* data.entries as it was.
C18_SortIsPermutation ==
    /\ [](sortKey # "none" /\ swrData.defined =>
            /\ Len(sorted) = Len(swrData.entries)
            /\ \A a \in Agents :
                  Cardinality({i \in 1..Len(sorted) : sorted[i] = a})
                     = Cardinality({i \in 1..Len(swrData.entries) :
                                       swrData.entries[i] = a}))
    /\ [][lastOp' = "getSortedEntries" => UNCHANGED swrData]_vars

\* C18 witness: a list with an entry twice was sorted by an unknown key into
\* another order.
C18_ReorderedWithUnknownKey ==
    /\ sortKey = "unknown" /\ swrData.defined
    /\ Len(swrData.entries) = 3
    /\ swrData.entries[1] = swrData.entries[3]
    /\ sorted # swrData.entries

(***************************************************************************)
(* Properties of the admin API client.                                     *)
(***************************************************************************)
\* C27: a request() call that gets HTTP 401 removes the stored token and the
\* stored user (isAuthenticated() is false and getUser() is null afterwards)
\* and rejects; any other non-OK status rejects and leaves both as they
\* were.
C27_UnauthorizedClearsSession ==
    [][lastOp' = "request settled" =>
          /\ outcome'.status = 401 =>
                /\ storage' = [k \in StorageKeys |-> Null]
                /\ ~IsAuthenticated(storage')
                /\ GetUser(storage') = Null
                /\ outcome'.result = "rejected"
          /\ (~ResponseOk(outcome'.status) /\ outcome'.status # 401) =>
                /\ outcome'.result = "rejected"
                /\ UNCHANGED storage]_vars

\* C27 witness: a call got 401 while a token and a user were stored, with
\* another call, sent with that token, still in flight.
C27_SessionClearedBy401 ==
    /\ lastOp = "request settled" /\ outcome.status = 401
    /\ storage = [k \in StorageKeys |-> Null]
    /\ Len(adminReqs) = 1 /\ adminReqs[1] = "t1"

(***************************************************************************)
(* Properties of the leaderboard page.                                     *)
(***************************************************************************)
\* C28 (as stated): once every leaderboard request has settled (and none of
\* them left an error), agents is the response to the (month, agentType)
\* pair selected last.
C28_LatestSelectionShown ==
    (pageReqs = <<>> /\ pageError = Null) =>
        agents = EntriesFor(month, agentType)

(***************************************************************************)
(* Properties of the admin questions page.                                 *)
(***************************************************************************)
\* C29 (as stated): currentPage is at least 1 and at most max(1, totalPages)
\* after any clicks, filter changes and fetch results.
C29_PageWithinRange ==
    /\ currentPage >= 1
    /\ currentPage <= Max(1, totalPages)

(***************************************************************************)
(* Properties of the ranking table.                                        *)
(***************************************************************************)
\* C30: the compare selection never holds more than 3 agent ids; a
\* toggleSelect call removes its id when it is selected, adds it when it is
\* not and fewer than 3 are selected, and changes nothing otherwise.
C30_SelectionAtMostThree ==
    /\ [](Cardinality(selectedIds) <= 3)
    /\ [][\A agentId \in AgentIds :
            lastOp' = "toggleSelect " \o agentId =>
               \/ /\ agentId \in selectedIds
                  /\ selectedIds' = selectedIds \ {agentId}
               \/ /\ agentId \notin selectedIds
                  /\ Cardinality(selectedIds) < 3
                  /\ selectedIds' = selectedIds \cup {agentId}
               \/ /\ agentId \notin selectedIds
                  /\ Cardinality(selectedIds) >= 3
                  /\ selectedIds' = selectedIds]_vars

\* C30 witness: with three agents selected, a fourth was toggled and the
\* selection stayed as it was.
C30_FourthIgnored ==
    /\ lastOp = "toggleSelect E"
    /\ selectedIds = {"A", "B", "C"}
    /\ compareMode

====
